---- MODULE Spec2Model ----
(***************************************************************************)
(* Logits processors of transformers.js (generation utilities): the rule   *)
(* chain LogitsProcessorList and the rules ForceTokens, ForcedBOS,         *)
(* ForcedEOS, WhisperTimeStamp, NoRepeatNGram and RepetitionPenalty.       *)
(*                                                                         *)
(* A score is an exact rational <<n, d>> (d >= 1, lowest terms); negative  *)
(* infinity is <<-1, 0>>.  A buffer (logits.data, a typed array) is a      *)
(* function from the indices 0..V-1 to scores.  A history (input_ids) is a *)
(* sequence of token ids; JavaScript's index j is the sequence's j + 1.    *)
(***************************************************************************)
EXTENDS Integers, Sequences, FiniteSets, TLC

VARIABLES
    processors,     \* LogitsProcessorList.processors
    inserted,       \* the rules in the order push/extend received them
    extended,       \* an extend call with two or more items took place
    proc,           \* the rule a direct call is made on
    generate_config,\* the configuration the Whisper rule was constructed from
    histories,      \* the decoding loop's own history of every row
    input_ids,      \* the history argument of the call
    given,          \* the buffers as they were when the call began
    batchedLogits,  \* the buffers, mutated in place by the call
    calls,          \* the <<row, rule index>> invocations of the chain, in order
    pc              \* "idle", "returned" or "threw"

vars == <<processors, inserted, extended, proc, generate_config, histories,
          input_ids, given, batchedLogits, calls, pc>>

----------------------------------------------------------------------------
(* Bounds of the model. *)

VocabSize == 4
MaxLen == 4
MaxChain == 2
MaxRows == 2
MaxNgram == 3
MaxDecode == 4

Vocab == 0 .. (VocabSize - 1)

\* Histories are drawn over a text token (0) and the vocabulary's last token.
HistTokens == {0, VocabSize - 1}

RECURSIVE SeqsUpTo(_, _)
SeqsUpTo(S, n) ==
    IF n = 0 THEN {<<>>}
    ELSE LET shorter == SeqsUpTo(S, n - 1)
         IN  shorter \cup {Append(s, x) : s \in {t \in shorter : Len(t) = n - 1}, x \in S}

Histories == SeqsUpTo(HistTokens, MaxLen)

----------------------------------------------------------------------------
(* Scores: IEEE arithmetic on the values the model draws, done exactly. *)

NegInf == <<-1, 0>>

RECURSIVE GCD(_, _)
GCD(a, b) == IF b = 0 THEN a ELSE GCD(b, a % b)

Abs(a) == IF a < 0 THEN -a ELSE a

Rat(n, d) ==
    LET g == GCD(Abs(n), d)
    IN  <<n \div g, d \div g>>

Num(k) == <<k, 1>>

IsNegInf(x) == x[2] = 0

\* x < 0 in JavaScript
Negative(x) == x[1] < 0

\* x * p and x / p for a positive finite p; -Infinity stays -Infinity
Times(x, p) == IF IsNegInf(x) THEN NegInf ELSE Rat(x[1] * p[1], x[2] * p[2])

Over(x, p) == IF IsNegInf(x) THEN NegInf ELSE Rat(x[1] * p[2], x[2] * p[1])

Buffers(S) == [Vocab -> S]

----------------------------------------------------------------------------
(* Typed-array operations on logits.data. *)

\* data.fill(v)
fill(data, v) == [i \in DOMAIN data |-> v]

\* data[i] = v : a store outside the array is ignored
store(data, i, v) == IF i \in DOMAIN data THEN [data EXCEPT ![i] = v] ELSE data

\* data.length
length(data) == Cardinality(DOMAIN data)

\* data.subarray(lo, hi).fill(v) : a view, so the fill writes through
subarray_fill(data, lo, hi, v) ==
    [i \in DOMAIN data |-> IF lo <= i /\ i < hi THEN v ELSE data[i]]

\* the outcome of one rule call
Returned(data) == [data |-> data, threw |-> FALSE]

Threw(data) == [data |-> data, threw |-> TRUE]

----------------------------------------------------------------------------
(* ForceTokensLogitsProcessor *)

\* Object.fromEntries(forced_decoder_ids ?? []) : a later entry of a key wins
RECURSIVE fromEntries(_)
fromEntries(entries) ==
    IF entries = <<>> THEN <<>>
    ELSE LET n     == Len(entries)
             rest  == fromEntries(SubSeq(entries, 1, n - 1))
             last  == entries[n]
         IN  [k \in (DOMAIN rest) \cup {last[1]} |->
                 IF k = last[1] THEN last[2] ELSE rest[k]]

ForceTokensLogitsProcessor(forced_decoder_ids) ==
    [kind |-> "ForceTokens", force_token_map |-> fromEntries(forced_decoder_ids)]

\* exists(this.force_token_map[key]) : the lookup found an entry
exists(map, key) == key \in DOMAIN map

ForceTokens_call_nofill(self, ids, data) ==
    IF exists(self.force_token_map, Len(ids))
    THEN Returned(store(data, self.force_token_map[Len(ids)], Num(0)))
    ELSE Returned(data)

ForceTokens_call(self, ids, data) ==
    IF exists(self.force_token_map, Len(ids))
    THEN Returned(store(fill(data, NegInf), self.force_token_map[Len(ids)], Num(0)))
    ELSE Returned(data)

----------------------------------------------------------------------------
(* ForcedBOSTokenLogitsProcessor *)

ForcedBOSTokenLogitsProcessor(bos_token_id) ==
    [kind |-> "ForcedBOS", bos_token_id |-> bos_token_id]

ForcedBOS_call_atmost1(self, ids, data) ==
    IF Len(ids) <= 1
    THEN Returned(store(fill(data, NegInf), self.bos_token_id, Num(0)))
    ELSE Returned(data)

ForcedBOS_call(self, ids, data) ==
    IF Len(ids) = 1
    THEN Returned(store(fill(data, NegInf), self.bos_token_id, Num(0)))
    ELSE Returned(data)

----------------------------------------------------------------------------
(* LogitsProcessor (abstract base) and ForcedEOSTokenLogitsProcessor *)

LogitsProcessor == [kind |-> "Base"]

LogitsProcessor_call(self, ids, data) == Threw(data)

ForcedEOSTokenLogitsProcessor(max_length, forced_eos_token_id) ==
    [kind |-> "ForcedEOS", max_length |-> max_length,
     forced_eos_token_id |-> forced_eos_token_id]

ForcedEOS_call(self, ids, data) == Threw(data)

----------------------------------------------------------------------------
(* RepetitionPenaltyLogitsProcessor *)

RepetitionPenaltyLogitsProcessor(penalty) ==
    [kind |-> "RepetitionPenalty", penalty |-> penalty]

penalise(data, input_id, penalty) ==
    IF input_id \notin DOMAIN data THEN data
    ELSE IF Negative(data[input_id])
         THEN store(data, input_id, Times(data[input_id], penalty))
         ELSE store(data, input_id, Over(data[input_id], penalty))

RECURSIVE penaliseAll_distinct(_, _, _)
penaliseAll_distinct(data, ids, penalty) ==
    IF ids = <<>> THEN data
    ELSE penaliseAll_distinct(penalise(data, Head(ids), penalty),
                              SelectSeq(Tail(ids), LAMBDA x : x # Head(ids)), penalty)

\* for (const input_id of input_ids) { ... } : one pass per element, in order
RECURSIVE penaliseAll(_, _, _)
penaliseAll(data, ids, penalty) ==
    IF ids = <<>> THEN data
    ELSE penaliseAll(penalise(data, Head(ids), penalty), Tail(ids), penalty)

RepetitionPenalty_call(self, ids, data) ==
    Returned(penaliseAll(data, ids, self.penalty))

----------------------------------------------------------------------------
(* NoRepeatNGramLogitsProcessor *)

\* the Map of getNgrams: prefix (the JSON.stringify key) -> the tokens that followed it
RECURSIVE groupNgrams(_)
groupNgrams(ngrams) ==
    IF ngrams = <<>> THEN <<>>
    ELSE LET n              == Len(ngrams)
             generatedNgram == groupNgrams(SubSeq(ngrams, 1, n - 1))
             ngram          == ngrams[n]
             prevNgram      == SubSeq(ngram, 1, Len(ngram) - 1)
             prevNgramValue == IF prevNgram \in DOMAIN generatedNgram
                               THEN generatedNgram[prevNgram] ELSE <<>>
         IN  [key \in (DOMAIN generatedNgram) \cup {prevNgram} |->
                 IF key = prevNgram
                 THEN Append(prevNgramValue, ngram[Len(ngram)])
                 ELSE generatedNgram[key]]

getNgrams(ngramSize, prevInputIds) ==
    LET curLen == Len(prevInputIds)
        count  == IF curLen + 1 - ngramSize > 0 THEN curLen + 1 - ngramSize ELSE 0
        ngrams == [j \in 1 .. count |-> SubSeq(prevInputIds, j, j + ngramSize - 1)]
    IN  groupNgrams(ngrams)

getGeneratedNgrams(bannedNgrams, prevInputIds, ngramSize) ==
    LET ngramIdx == SubSeq(prevInputIds, Len(prevInputIds) + 2 - ngramSize,
                           Len(prevInputIds))
    IN  IF ngramIdx \in DOMAIN bannedNgrams THEN bannedNgrams[ngramIdx] ELSE <<>>

calcBannedNgramTokens_anyPrefix(ngramSize, prevInputIds) ==
    IF Len(prevInputIds) + 1 < ngramSize THEN <<>>
    ELSE LET count == Len(prevInputIds) + 1 - ngramSize
         IN  [j \in 1 .. count |-> prevInputIds[j + ngramSize - 1]]

calcBannedNgramTokens(ngramSize, prevInputIds) ==
    IF Len(prevInputIds) + 1 < ngramSize THEN <<>>
    ELSE getGeneratedNgrams(getNgrams(ngramSize, prevInputIds), prevInputIds, ngramSize)

NoRepeatNGramLogitsProcessor(no_repeat_ngram_size) ==
    [kind |-> "NoRepeatNGram", no_repeat_ngram_size |-> no_repeat_ngram_size]

RECURSIVE banAll(_, _)
banAll(data, bannedTokens) ==
    IF bannedTokens = <<>> THEN data
    ELSE banAll(store(data, Head(bannedTokens), NegInf), Tail(bannedTokens))

NoRepeatNGram_call(self, ids, data) ==
    Returned(banAll(data, calcBannedNgramTokens(self.no_repeat_ngram_size, ids)))

----------------------------------------------------------------------------
(* WhisperTimeStampLogitsProcessor *)

\* generate_config.max_initial_timestamp_index: absent, null, or a number
Undefined == <<"undefined">>

Null == <<"null">>

Number(k) == <<"number", k>>

\* generate_config.forced_decoder_ids is a non-empty list of [index, token] pairs:
\* the constructor reads its last entry (line 191) and throws on an empty or absent list
WhisperTimeStampLogitsProcessor_unadjusted(config) ==
    [kind |-> "WhisperTimeStamp",
     eos_token_id |-> config.eos_token_id,
     no_timestamps_token_id |-> config.no_timestamps_token_id,
     timestamp_begin |-> config.no_timestamps_token_id + 1,
     begin_index |-> Len(config.forced_decoder_ids) + 2,
     max_initial_timestamp_index |-> config.max_initial_timestamp_index]

WhisperTimeStampLogitsProcessor(config) ==
    LET forced == config.forced_decoder_ids
        base   == Len(forced) + 2
    IN  [kind |-> "WhisperTimeStamp",
         eos_token_id |-> config.eos_token_id,
         no_timestamps_token_id |-> config.no_timestamps_token_id,
         timestamp_begin |-> config.no_timestamps_token_id + 1,
         begin_index |-> IF forced[Len(forced)][2] = config.no_timestamps_token_id
                         THEN base - 1 ELSE base,
         max_initial_timestamp_index |-> config.max_initial_timestamp_index]

\* Math.exp of an integer score k above the lowest finite score, in thousandths
ExpScaled(k) ==
    CASE k = 0 -> 1000
      [] k = 1 -> 2718
      [] k = 2 -> 7389
      [] k = 3 -> 20086

RECURSIVE SumOver(_, _)
SumOver(S, f) ==
    IF S = {} THEN 0
    ELSE LET i == CHOOSE j \in S : TRUE
         IN  f[i] + SumOver(S \ {i}, f)

RECURSIVE MaxOver(_, _)
MaxOver(S, f) ==
    LET i == CHOOSE j \in S : TRUE
    IN  IF S = {i} THEN f[i]
        ELSE LET m == MaxOver(S \ {i}, f) IN IF f[i] > m THEN f[i] ELSE m

Finite(data, S) == {i \in S : ~IsNegInf(data[i])}

\* lines 234-237: timestamp_logprob > max_text_token_logprob, on scores that are
\* integers or -Infinity.  log_softmax subtracts one constant from every score, so
\* the test compares the summed exp of the timestamp scores with the largest exp of a
\* text score.  With no finite text score nothing finite is left for line 238 to
\* change.  With the timestamp mass in one token whose score equals the best text
\* score, Math.log(Math.exp(x)) is compared with x itself and the rounding of exp and
\* log decides: round_up is that outcome.
timestamp_mass_exceeds(data, timestamp_begin, round_up) ==
    LET text   == Finite(data, {i \in DOMAIN data : i < timestamp_begin})
        stamps == Finite(data, {i \in DOMAIN data : i >= timestamp_begin})
        all    == text \cup stamps
        value  == [i \in all |-> data[i][1]]
        lowest == -MaxOver(all, [i \in all |-> -value[i]])
        weight == [i \in all |-> ExpScaled(value[i] - lowest)]
    IN  IF text = {} THEN stamps # {}
        ELSE IF stamps = {} THEN FALSE
        ELSE IF Cardinality(stamps) = 1 /\ SumOver(stamps, value) = MaxOver(text, value)
             THEN round_up
             ELSE SumOver(stamps, weight) > MaxOver(text, weight)

pair_timestamps_inclusive(self, ids, data) ==
    LET seq == SubSeq(ids, self.begin_index + 1, Len(ids))
        last_was_timestamp ==
            Len(seq) >= 1 /\ seq[Len(seq)] >= self.timestamp_begin
        penultimate_was_timestamp ==
            Len(seq) < 2 \/ seq[Len(seq) - 1] >= self.timestamp_begin
    IN  IF last_was_timestamp
        THEN IF penultimate_was_timestamp
             THEN subarray_fill(data, self.timestamp_begin, length(data), NegInf)
             ELSE subarray_fill(data, 0, self.eos_token_id + 1, NegInf)
        ELSE data

pair_timestamps_penultimateIgnored(self, ids, data) ==
    LET seq == SubSeq(ids, self.begin_index + 1, Len(ids))
        last_was_timestamp ==
            Len(seq) >= 1 /\ seq[Len(seq)] >= self.timestamp_begin
    IN  IF last_was_timestamp
        THEN subarray_fill(data, 0, self.eos_token_id, NegInf)
        ELSE data

\* lines 214-225: timestamps have to appear in pairs
pair_timestamps(self, ids, data) ==
    LET seq == SubSeq(ids, self.begin_index + 1, Len(ids))
        last_was_timestamp ==
            Len(seq) >= 1 /\ seq[Len(seq)] >= self.timestamp_begin
        penultimate_was_timestamp ==
            Len(seq) < 2 \/ seq[Len(seq) - 1] >= self.timestamp_begin
    IN  IF last_was_timestamp
        THEN IF penultimate_was_timestamp
             THEN subarray_fill(data, self.timestamp_begin, length(data), NegInf)
             ELSE subarray_fill(data, 0, self.eos_token_id, NegInf)
        ELSE data

\* lines 227-231: `!== null` lets an absent (undefined) option through; last_allowed
\* is then NaN and subarray(NaN) is the whole array
apply_max_initial_timestamp(self, ids, data) ==
    IF Len(ids) = self.begin_index /\ self.max_initial_timestamp_index # Null
    THEN IF self.max_initial_timestamp_index = Undefined
         THEN fill(data, NegInf)
         ELSE LET last_allowed ==
                      self.timestamp_begin + self.max_initial_timestamp_index[2]
              IN  subarray_fill(data, last_allowed + 1, length(data), NegInf)
    ELSE data

\* lines 233-239
sample_timestamp(self, data, round_up) ==
    IF timestamp_mass_exceeds(data, self.timestamp_begin, round_up)
    THEN subarray_fill(data, 0, self.timestamp_begin, NegInf)
    ELSE data

WhisperTimeStamp_call_keepNoTimestamps(self, ids, data, round_up) ==
    IF Len(ids) = self.begin_index - 1
    THEN Returned(store(fill(data, NegInf), self.timestamp_begin, Num(0)))
    ELSE Returned(sample_timestamp(self,
             apply_max_initial_timestamp(self, ids, pair_timestamps(self, ids, data)),
             round_up))

WhisperTimeStamp_call(self, ids, data, round_up) ==
    LET suppressed == store(data, self.no_timestamps_token_id, NegInf)
    IN  IF Len(ids) = self.begin_index - 1
        THEN Returned(store(fill(suppressed, NegInf), self.timestamp_begin, Num(0)))
        ELSE Returned(sample_timestamp(self,
                 apply_max_initial_timestamp(self, ids,
                     pair_timestamps(self, ids, suppressed)),
                 round_up))

----------------------------------------------------------------------------
(* LogitsProcessorList *)

\* func(input_ids, logits) : a Callable runs its own _call
call(self, ids, data) ==
    CASE self.kind = "ForceTokens"       -> ForceTokens_call(self, ids, data)
      [] self.kind = "ForcedBOS"         -> ForcedBOS_call(self, ids, data)
      [] self.kind = "ForcedEOS"         -> ForcedEOS_call(self, ids, data)
      [] self.kind = "Base"              -> LogitsProcessor_call(self, ids, data)
      [] self.kind = "NoRepeatNGram"     -> NoRepeatNGram_call(self, ids, data)
      [] self.kind = "RepetitionPenalty" -> RepetitionPenalty_call(self, ids, data)

push_front(list, item) == <<item>> \o list

push(list, item) == Append(list, item)

extend(list, items) == list \o items

RECURSIVE forEach_swallow(_, _, _, _)
forEach_swallow(list, k, ids, data) ==
    IF k > Len(list) THEN [data |-> data, threw |-> FALSE, invoked |-> Len(list)]
    ELSE forEach_swallow(list, k + 1, ids, call(list[k], ids, data).data)

\* this.processors.forEach(func => func(input_ids, logits)) from rule k on: the
\* buffer as left, whether a rule threw, and how many rules were invoked
RECURSIVE forEach(_, _, _, _)
forEach(list, k, ids, data) ==
    IF k > Len(list) THEN [data |-> data, threw |-> FALSE, invoked |-> Len(list)]
    ELSE LET r == call(list[k], ids, data)
         IN  IF r.threw THEN [data |-> r.data, threw |-> TRUE, invoked |-> k]
             ELSE forEach(list, k + 1, ids, r.data)

\* for (let logits of batchedLogits) { ... } from row i on
RECURSIVE forRows(_, _, _, _, _)
forRows(list, ids, batch, i, log) ==
    IF i > Len(batch) THEN [batch |-> batch, threw |-> FALSE, calls |-> log]
    ELSE LET r    == forEach(list, 1, ids, batch[i])
             next == [batch EXCEPT ![i] = r.data]
             seen == log \o [k \in 1 .. r.invoked |-> <<i, k>>]
         IN  IF r.threw THEN [batch |-> next, threw |-> TRUE, calls |-> seen]
             ELSE forRows(list, ids, next, i + 1, seen)

LogitsProcessorList_call(list, ids, batch) == forRows(list, ids, batch, 1, <<>>)

----------------------------------------------------------------------------
(* Inputs *)

NoProcessor == [kind |-> "none"]

NoConfig == [kind |-> "none"]

ForceScores == {NegInf, Num(1)}

PenaltyScores == {NegInf, Num(-1), Num(0), Num(1)}

WhisperScores == {NegInf, Num(0), Num(1)}

\* scores the model hands to one step of a decoding run: a token is open or closed;
\* two open timestamps outweigh every text token, one ties with an open text token
DecodeScores == {NegInf, Num(0)}

Penalties == {<<1, 1>>, <<2, 1>>, <<1, 2>>}

\* [step, token] pairs; the token VocabSize lies outside the buffer
ForcedPairs == {<<step, t>> : step \in {1, 2}, t \in {0, VocabSize - 1, VocabSize}}

ForcedLists == SeqsUpTo(ForcedPairs, 2)

\* Whisper's vocabulary layout: text tokens, eos among them, then no_timestamps,
\* then the timestamp tokens (at least one)
WhisperLayouts ==
    {l \in (0 .. (VocabSize - 3)) \X (1 .. (VocabSize - 2)) : l[1] < l[2]}

WhisperForced(no_timestamps) ==
    {<<<<1, no_timestamps>>>>, <<<<1, 0>>, <<2, 0>>>>}

WhisperConfigs ==
    UNION {{[eos_token_id |-> l[1], no_timestamps_token_id |-> l[2],
             forced_decoder_ids |-> f, max_initial_timestamp_index |-> m] :
               f \in WhisperForced(l[2]), m \in {Undefined, Null, Number(0)}} :
           l \in WhisperLayouts}

ChainRules ==
    {ForceTokensLogitsProcessor(<<<<2, 0>>>>),
     ForcedBOSTokenLogitsProcessor(VocabSize - 1),
     NoRepeatNGramLogitsProcessor(1),
     RepetitionPenaltyLogitsProcessor(<<2, 1>>),
     ForcedEOSTokenLogitsProcessor(MaxLen, 0),
     LogitsProcessor}

ChainBuffers == {[i \in Vocab |-> Num(-1)], [i \in Vocab |-> Num(2 * i)]}

Batches == UNION {[1 .. n -> ChainBuffers] : n \in 0 .. MaxRows}

----------------------------------------------------------------------------
(* The state machine *)

Init ==
    /\ processors = <<>>
    /\ inserted = <<>>
    /\ extended = FALSE
    /\ proc = NoProcessor
    /\ generate_config = NoConfig
    /\ histories = <<>>
    /\ input_ids = <<>>
    /\ given = <<>>
    /\ batchedLogits = <<>>
    /\ calls = <<>>
    /\ pc = "idle"

\* one direct call rule(input_ids, logits) on a single buffer
Direct(rule, config, ids, data, result) ==
    /\ proc' = rule
    /\ generate_config' = config
    /\ histories' = <<ids>>
    /\ input_ids' = ids
    /\ given' = <<data>>
    /\ batchedLogits' = <<result.data>>
    /\ calls' = <<>>
    /\ pc' = IF result.threw THEN "threw" ELSE "returned"
    /\ UNCHANGED <<processors, inserted, extended>>

CallForceTokens ==
    /\ pc = "idle"
    /\ \E forced \in ForcedLists, ids \in Histories, data \in Buffers(ForceScores) :
         LET rule == ForceTokensLogitsProcessor(forced)
         IN  Direct(rule, NoConfig, ids, data, ForceTokens_call(rule, ids, data))

CallForcedBOS ==
    /\ pc = "idle"
    /\ \E bos \in Vocab, ids \in Histories, data \in Buffers(ForceScores) :
         LET rule == ForcedBOSTokenLogitsProcessor(bos)
         IN  Direct(rule, NoConfig, ids, data, ForcedBOS_call(rule, ids, data))

CallRepetitionPenalty ==
    /\ pc = "idle"
    /\ \E penalty \in Penalties, ids \in Histories, data \in Buffers(PenaltyScores) :
         LET rule == RepetitionPenaltyLogitsProcessor(penalty)
         IN  Direct(rule, NoConfig, ids, data, RepetitionPenalty_call(rule, ids, data))

CallNoRepeatNGram ==
    /\ pc = "idle"
    /\ \E n \in 1 .. MaxNgram, ids \in Histories, data \in Buffers(ForceScores) :
         LET rule == NoRepeatNGramLogitsProcessor(n)
         IN  Direct(rule, NoConfig, ids, data, NoRepeatNGram_call(rule, ids, data))

CallWhisperTimeStamp ==
    /\ pc = "idle"
    /\ \E config \in WhisperConfigs, ids \in Histories, data \in Buffers(WhisperScores),
          round_up \in BOOLEAN :
         LET rule == WhisperTimeStampLogitsProcessor(config)
         IN  Direct(rule, config, ids, data,
                    WhisperTimeStamp_call(rule, ids, data, round_up))

\* the history a decoding run has when the rule first matters: the decoder start
\* token and the forced tokens, begin_index - 1 tokens in all
StartDecoding ==
    /\ pc = "idle"
    /\ \E config \in WhisperConfigs :
         LET rule == WhisperTimeStampLogitsProcessor(config)
         IN  /\ proc' = rule
             /\ generate_config' = config
             /\ input_ids' = [j \in 1 .. (rule.begin_index - 1) |-> 0]
    /\ pc' = "decoding"
    /\ UNCHANGED <<processors, inserted, extended, histories, given, batchedLogits, calls>>

\* one step of the decoding loop: the model's scores for the step go through the
\* rule, a token the rule left selectable is appended to the history, and the
\* buffer is discarded
DecodeStep ==
    /\ pc = "decoding"
    /\ Len(input_ids) < proc.begin_index + MaxDecode
    /\ \E data \in Buffers(DecodeScores), round_up \in BOOLEAN :
         LET result == WhisperTimeStamp_call(proc, input_ids, data, round_up)
         IN  \E token \in Vocab :
                 /\ ~IsNegInf(result.data[token])
                 /\ input_ids' = Append(input_ids, token)
    /\ UNCHANGED <<processors, inserted, extended, proc, generate_config, histories,
                   given, batchedLogits, calls, pc>>

Push ==
    /\ pc = "idle"
    /\ Len(processors) < MaxChain
    /\ \E item \in ChainRules :
         /\ processors' = push(processors, item)
         /\ inserted' = Append(inserted, item)
    /\ UNCHANGED <<extended, proc, generate_config, histories, input_ids, given,
                   batchedLogits, calls, pc>>

Extend ==
    /\ pc = "idle"
    /\ \E items \in SeqsUpTo(ChainRules, 2) :
         /\ Len(processors) + Len(items) <= MaxChain
         /\ processors' = extend(processors, items)
         /\ inserted' = inserted \o items
         /\ extended' = (extended \/ Len(items) >= 2)
    /\ UNCHANGED <<proc, generate_config, histories, input_ids, given,
                   batchedLogits, calls, pc>>

Batch(rows, ids, batch, r) ==
    /\ histories' = rows
    /\ input_ids' = ids
    /\ given' = batch
    /\ batchedLogits' = r.batch
    /\ calls' = r.calls
    /\ pc' = IF r.threw THEN "threw" ELSE "returned"
    /\ UNCHANGED <<processors, inserted, extended, proc, generate_config>>

\* apply_batch with the one history the code takes, shared by every row
ApplyBatch ==
    /\ pc = "idle"
    /\ \E ids \in Histories, batch \in Batches :
         Batch([i \in DOMAIN batch |-> ids], ids, batch,
               LogitsProcessorList_call(processors, ids, batch))

\* apply_batch from a decoding loop whose rows have histories of their own: the
\* code's one history argument is the first row's
ApplyBatchRows ==
    /\ pc = "idle"
    /\ \E n \in 1 .. MaxRows :
         \E rows \in [1 .. n -> SeqsUpTo(HistTokens, 2)],
            batch \in [1 .. n -> ChainBuffers] :
              Batch(rows, rows[1], batch,
                    LogitsProcessorList_call(processors, rows[1], batch))

SpecForce == Init /\ [][CallForceTokens \/ CallForcedBOS]_vars

SpecPenalty == Init /\ [][CallRepetitionPenalty]_vars

SpecNgram == Init /\ [][CallNoRepeatNGram]_vars

SpecWhisper == Init /\ [][CallWhisperTimeStamp]_vars

SpecDecode == Init /\ [][StartDecoding \/ DecodeStep]_vars

SpecChain == Init /\ [][Push \/ Extend \/ ApplyBatch]_vars

SpecBatch == Init /\ [][Push \/ Extend \/ ApplyBatchRows]_vars

Next ==
    \/ CallForceTokens \/ CallForcedBOS \/ CallRepetitionPenalty
    \/ CallNoRepeatNGram \/ CallWhisperTimeStamp
    \/ StartDecoding \/ DecodeStep
    \/ Push \/ Extend \/ ApplyBatch \/ ApplyBatchRows

Spec == Init /\ [][Next]_vars

----------------------------------------------------------------------------
(* Claims *)

Done == pc = "returned"

\* the one buffer of a direct call, before and after
Before == given[1]

After == batchedLogits[1]

\* rule_k(... rule_2(rule_1(data))) for the rules of a list, first to last
RECURSIVE ComposeRules(_, _, _)
ComposeRules(rules, ids, data) ==
    IF rules = <<>> THEN data
    ELSE ComposeRules(Tail(rules), ids, call(Head(rules), ids, data).data)

Throws(rule) == rule.kind \in {"ForcedEOS", "Base"}

Throwers(list) == {k \in DOMAIN list : Throws(list[k])}

FirstThrower(list) == CHOOSE k \in Throwers(list) : \A j \in Throwers(list) : k <= j

\* C1: when apply_batch returns, every row's buffer is the sequential composition
\* rule_k(...rule_1(buffer)) of the rules in the order push/extend received them.
C1_InsertionOrderComposition ==
    Done /\ proc = NoProcessor =>
        \A i \in DOMAIN given :
            batchedLogits[i] = ComposeRules(inserted, input_ids, given[i])

\* C1 witness: a chain of two rules added by one extend call, on which the result
\* differs from the reverse order and from either rule applied to the given buffer.
C1_Witness ==
    /\ Done /\ proc = NoProcessor /\ extended
    /\ Len(inserted) = 2 /\ Len(given) >= 1
    /\ batchedLogits[1] # ComposeRules(<<inserted[2], inserted[1]>>, input_ids, given[1])
    /\ batchedLogits[1] # call(inserted[2], input_ids, given[1]).data
    /\ batchedLogits[1] # call(inserted[1], input_ids, given[1]).data

\* C2: when apply_batch returns, every row's buffer is the chain applied to that
\* row's own history.
C2_RowUsesOwnHistory ==
    Done /\ proc = NoProcessor =>
        \A i \in DOMAIN given :
            batchedLogits[i] = ComposeRules(processors, histories[i], given[i])

\* C3: ForceTokens with an entry for the history length whose target t is a valid
\* index leaves t at 0 and every other entry at -Infinity; with no entry the buffer
\* is unchanged.
C3_ForceTokenAt ==
    Done /\ proc.kind = "ForceTokens" =>
        LET h == Len(input_ids)
            map == proc.force_token_map
        IN  IF h \in DOMAIN map
            THEN map[h] \in Vocab =>
                     \A i \in Vocab : After[i] = IF i = map[h] THEN Num(0) ELSE NegInf
            ELSE After = Before

\* C3 witness: a forced step whose buffer held finite scores away from the target.
C3_Witness ==
    /\ Done /\ proc.kind = "ForceTokens"
    /\ Len(input_ids) \in DOMAIN proc.force_token_map
    /\ proc.force_token_map[Len(input_ids)] \in Vocab
    /\ \E i \in Vocab : i # proc.force_token_map[Len(input_ids)] /\ ~IsNegInf(Before[i])
    /\ After # Before

\* C4: ForcedBOS forces bos_token_id exactly when the history length is 1, and
\* leaves the buffer unchanged at every other length.
C4_ForceBOSIffLengthOne ==
    Done /\ proc.kind = "ForcedBOS" =>
        IF Len(input_ids) = 1
        THEN \A i \in Vocab : After[i] = IF i = proc.bos_token_id THEN Num(0) ELSE NegInf
        ELSE After = Before

\* C4 witness: a call at length 1 on a buffer with a finite score away from bos.
C4_Witness ==
    /\ Done /\ proc.kind = "ForcedBOS" /\ Len(input_ids) = 1
    /\ \E i \in Vocab : i # proc.bos_token_id /\ ~IsNegInf(Before[i])
    /\ After # Before

Occurrences(ids, t) == Cardinality({j \in DOMAIN ids : ids[j] = t})

\* the transform of one score: negative times penalty, otherwise over penalty
Penalised(x, penalty) == IF Negative(x) THEN Times(x, penalty) ELSE Over(x, penalty)

RECURSIVE PenalisedTimes(_, _, _)
PenalisedTimes(x, penalty, k) ==
    IF k = 0 THEN x ELSE PenalisedTimes(Penalised(x, penalty), penalty, k - 1)

\* C5 as stated: a token in the history has its score transformed once, however
\* often it occurs; a token absent from the history keeps its score.
C5_OncePerDistinctIndex ==
    Done /\ proc.kind = "RepetitionPenalty" =>
        \A t \in Vocab :
            After[t] = IF Occurrences(input_ids, t) > 0
                       THEN Penalised(Before[t], proc.penalty)
                       ELSE Before[t]

\* C5 amended: a token's score is transformed once per occurrence of the token in
\* the history, in succession; a token absent from the history keeps its score.
C5_OncePerOccurrence ==
    Done /\ proc.kind = "RepetitionPenalty" =>
        \A t \in Vocab :
            After[t] = PenalisedTimes(Before[t], proc.penalty, Occurrences(input_ids, t))

\* C5 witness: a token occurring twice or more whose score the second transform
\* changes again, beside a token absent from the history.
C5_Witness ==
    /\ Done /\ proc.kind = "RepetitionPenalty"
    /\ \E t \in Vocab :
         /\ Occurrences(input_ids, t) >= 2
         /\ After[t] # Penalised(Before[t], proc.penalty)
    /\ \E t \in Vocab : Occurrences(input_ids, t) = 0 /\ ~IsNegInf(Before[t])

\* the last n - 1 tokens of the history followed by t occur as a window of the
\* history
Repeats(ids, n, t) ==
    /\ Len(ids) + 1 >= n
    /\ \E j \in 1 .. (Len(ids) + 1 - n) :
         SubSeq(ids, j, j + n - 1) = Append(SubSeq(ids, Len(ids) + 2 - n, Len(ids)), t)

\* C6: NoRepeatNGram sets a token's score to -Infinity exactly when the last n - 1
\* tokens followed by it already occur as a window of the history, and leaves every
\* other score unchanged; a history with length + 1 < n bans nothing.
C6_BannedIffWindowRepeats ==
    Done /\ proc.kind = "NoRepeatNGram" =>
        /\ \A t \in Vocab :
             After[t] = IF Repeats(input_ids, proc.no_repeat_ngram_size, t)
                        THEN NegInf ELSE Before[t]
        /\ Len(input_ids) + 1 < proc.no_repeat_ngram_size => After = Before

\* C6 witness: with n >= 2, a finite score is banned while another token of the
\* history, which does not complete a repeated window, keeps a finite score.
C6_Witness ==
    /\ Done /\ proc.kind = "NoRepeatNGram" /\ proc.no_repeat_ngram_size >= 2
    /\ \E t \in Vocab : ~IsNegInf(Before[t]) /\ IsNegInf(After[t])
    /\ \E t \in Vocab : Occurrences(input_ids, t) > 0 /\ ~IsNegInf(After[t])

\* begin_index as the claims state it, from the configuration
BeginIndex(config) ==
    LET forced == config.forced_decoder_ids
    IN  Len(forced) + 2
          - (IF forced[Len(forced)][2] = config.no_timestamps_token_id THEN 1 ELSE 0)

TimestampBegin(config) == config.no_timestamps_token_id + 1

Whisper == Done /\ proc.kind = "WhisperTimeStamp"

\* C7: after every WhisperTimeStamp call the score of no_timestamps_token_id is
\* -Infinity.
C7_NoTimestampsSuppressed ==
    Whisper => IsNegInf(After[generate_config.no_timestamps_token_id])

\* C7 witness: a call past the forced first timestamp on a finite no_timestamps
\* score, after which a text score is still finite.
C7_Witness ==
    /\ Whisper
    /\ Len(input_ids) # BeginIndex(generate_config) - 1
    /\ ~IsNegInf(Before[generate_config.no_timestamps_token_id])
    /\ \E i \in Vocab : i < TimestampBegin(generate_config) /\ ~IsNegInf(After[i])

\* C8: a call at history length begin_index - 1 leaves timestamp_begin at 0 and
\* every other entry at -Infinity.
C8_FirstTimestampForced ==
    Whisper /\ Len(input_ids) = BeginIndex(generate_config) - 1 =>
        \A i \in Vocab :
            After[i] = IF i = TimestampBegin(generate_config) THEN Num(0) ELSE NegInf

\* C8 witness: such a call, under a configuration whose last forced token is
\* no_timestamps, on a buffer with finite text and timestamp scores.
C8_Witness ==
    /\ Whisper /\ Len(input_ids) = BeginIndex(generate_config) - 1
    /\ BeginIndex(generate_config) = Len(generate_config.forced_decoder_ids) + 1
    /\ ~IsNegInf(Before[0])
    /\ ~IsNegInf(Before[VocabSize - 1])
    /\ Before[TimestampBegin(generate_config)] # Num(0)

\* C9: apply_batch on a non-empty batch with a chain holding a rule that throws ends
\* with the error delivered: the rules before the first such rule were applied to the
\* first row, no rule after it was invoked, and no later row was touched.
C9_ErrorReachesCaller ==
    pc # "idle" /\ proc = NoProcessor /\ Throwers(processors) # {} /\ Len(given) >= 1 =>
        LET k == FirstThrower(processors)
        IN  /\ pc = "threw"
            /\ calls = [j \in 1 .. k |-> <<1, j>>]
            /\ batchedLogits[1] =
                   ComposeRules(SubSeq(processors, 1, k - 1), input_ids, given[1])
            /\ \A i \in DOMAIN given : i >= 2 => batchedLogits[i] = given[i]

\* C9 witness: the error from a chain whose first rule throws and whose second rule
\* would have changed both rows of a batch of two.
C9_Witness ==
    /\ pc = "threw" /\ proc = NoProcessor
    /\ Len(processors) = 2 /\ Throws(processors[1]) /\ ~Throws(processors[2])
    /\ Len(given) = 2
    /\ \A i \in DOMAIN given : call(processors[2], input_ids, given[i]).data # given[i]

\* the part of the history from begin_index on ends with a timestamp that follows
\* a text token
Unpaired(config, ids) ==
    LET seq == SubSeq(ids, BeginIndex(config) + 1, Len(ids))
    IN  /\ Len(seq) >= 2
        /\ seq[Len(seq)] >= TimestampBegin(config)
        /\ seq[Len(seq) - 1] < TimestampBegin(config)

Timestamps(config) == {i \in Vocab : i >= TimestampBegin(config)}

\* C10 as stated: in the unpaired case every index below eos_token_id is -Infinity,
\* and eos_token_id and every timestamp index with a finite score before the call
\* have a finite score after it.
C10_EosAndTimestampsSelectable ==
    Whisper /\ Unpaired(generate_config, input_ids) =>
        /\ \A i \in Vocab : i < generate_config.eos_token_id => IsNegInf(After[i])
        /\ \A i \in Timestamps(generate_config) \cup {generate_config.eos_token_id} :
             ~IsNegInf(Before[i]) => ~IsNegInf(After[i])

\* C10 amended: in the unpaired case every index below eos_token_id is -Infinity and
\* every timestamp index keeps its score; eos_token_id keeps its score too, unless
\* the final probability-mass step suppresses the whole non-timestamp range, which
\* needs a finite timestamp score, never happens without one, and always happens
\* when a timestamp score is above every text score left from eos_token_id on.
C10_EosUnlessTimestampMass ==
    Whisper /\ Unpaired(generate_config, input_ids) =>
        LET eos    == generate_config.eos_token_id
            stamps == Timestamps(generate_config)
            text   == {i \in Vocab : eos <= i /\ i < generate_config.no_timestamps_token_id}
            finite == {i \in stamps : ~IsNegInf(Before[i])}
        IN  /\ \A i \in Vocab : i < eos => IsNegInf(After[i])
            /\ \A i \in stamps : After[i] = Before[i]
            /\ \/ After[eos] = Before[eos]
               \/ /\ finite # {}
                  /\ \A i \in Vocab : i < TimestampBegin(generate_config) => IsNegInf(After[i])
            /\ finite = {} => After[eos] = Before[eos]
            /\ (\E i \in finite : \A j \in text :
                   IsNegInf(Before[j]) \/ Before[j][1] < Before[i][1])
                 => IsNegInf(After[eos])

\* C10 witness: an unpaired call that suppresses a finite text score below
\* eos_token_id and leaves eos_token_id and a timestamp with finite scores.
C10_Witness ==
    /\ Whisper /\ Unpaired(generate_config, input_ids)
    /\ \E i \in Vocab : i < generate_config.eos_token_id /\ ~IsNegInf(Before[i])
    /\ ~IsNegInf(After[generate_config.eos_token_id])
    /\ \E i \in Timestamps(generate_config) : ~IsNegInf(After[i])

\* the call past the forced first timestamp with the initial-timestamp step left
\* out: no_timestamps suppressed, timestamps paired, probability mass compared
WithoutInitialBound(config, ids, data, round_up) ==
    LET self == WhisperTimeStampLogitsProcessor(config)
    IN  sample_timestamp(self,
            pair_timestamps(self, ids, store(data, config.no_timestamps_token_id, NegInf)),
            round_up)

\* max_initial_timestamp_index was supplied as a number
InitialBoundSet(config) == config.max_initial_timestamp_index[1] = "number"

\* C11: the initial-timestamp bound applies exactly at history length begin_index
\* with max_initial_timestamp_index set, and then every index above
\* timestamp_begin + max_initial_timestamp_index is -Infinity; with the option unset
\* (absent or null) or at any other history length past the forced first timestamp
\* the call ends as it would without that step.
C11_InitialBoundIffSet ==
    Whisper /\ Len(input_ids) # BeginIndex(generate_config) - 1 =>
        IF Len(input_ids) = BeginIndex(generate_config) /\ InitialBoundSet(generate_config)
        THEN \A i \in Vocab :
                 i > TimestampBegin(generate_config)
                       + generate_config.max_initial_timestamp_index[2]
                     => IsNegInf(After[i])
        ELSE \E round_up \in BOOLEAN :
                 After = WithoutInitialBound(generate_config, input_ids, Before, round_up)

\* the buffer as the steps before the probability-mass comparison leave it
BeforeSampling(config, ids, data) ==
    LET self == WhisperTimeStampLogitsProcessor(config)
    IN  apply_max_initial_timestamp(self, ids,
            pair_timestamps(self, ids, store(data, config.no_timestamps_token_id, NegInf)))

\* softmax probability of index i, in thousandths of the smallest finite one: the
\* common denominator does not matter to a comparison
Probability(data, i) ==
    IF IsNegInf(data[i]) THEN 0
    ELSE LET finite == Finite(data, DOMAIN data)
             lowest == -MaxOver(finite, [j \in finite |-> -data[j][1]])
         IN  ExpScaled(data[i][1] - lowest)

TimestampMass(config, data) ==
    SumOver(Timestamps(config), [i \in Timestamps(config) |-> Probability(data, i)])

TextTokens(config) == {i \in Vocab : i < TimestampBegin(config)}

BestTextProbability(config, data) ==
    MaxOver(TextTokens(config), [i \in TextTokens(config) |-> Probability(data, i)])

\* a single timestamp carries the whole timestamp mass and is exactly as probable
\* as the best text token
MassTie(config, data) ==
    /\ TimestampMass(config, data) = BestTextProbability(config, data)
    /\ TimestampMass(config, data) > 0

\* C12: on a call past the forced first timestamp the last step sets every index
\* below timestamp_begin to -Infinity if and only if the probability mass of the
\* timestamp range, in the buffer the earlier steps left, is strictly greater than
\* the largest probability of a single index below timestamp_begin; otherwise it
\* changes nothing, and it never changes a timestamp index.
C12_SuppressTextIffTimestampMass ==
    Whisper /\ Len(input_ids) # BeginIndex(generate_config) - 1 =>
        LET left == BeforeSampling(generate_config, input_ids, Before)
        IN  After = IF TimestampMass(generate_config, left)
                          > BestTextProbability(generate_config, left)
                    THEN [i \in Vocab |->
                             IF i \in TextTokens(generate_config) THEN NegInf ELSE left[i]]
                    ELSE left

Decoding == pc = "decoding"

\* the part of a decoding run's history from begin_index on
PostPrefix == SubSeq(input_ids, BeginIndex(generate_config) + 1, Len(input_ids))

IsTimestamp(token) == token >= TimestampBegin(generate_config)

\* the post-prefix part ends with a timestamp whose predecessor in that part is a
\* timestamp too or does not exist
PairClosed ==
    LET seq == PostPrefix
    IN  /\ Len(seq) >= 1
        /\ IsTimestamp(seq[Len(seq)])
        /\ Len(seq) < 2 \/ IsTimestamp(seq[Len(seq) - 1])

ThreeTimestamps ==
    LET seq == PostPrefix
    IN  \E j \in 1 .. (Len(seq) - 2) :
            IsTimestamp(seq[j]) /\ IsTimestamp(seq[j + 1]) /\ IsTimestamp(seq[j + 2])

\* C13: in a decoding run that calls the rule at every step and appends only tokens
\* the call left with a score other than -Infinity, a step taken when the
\* post-prefix part of the history ends with a timestamp whose predecessor there is
\* a timestamp or does not exist appends a token below timestamp_begin; and the
\* post-prefix part never holds three timestamps in a row.
C13_TimestampsComeInPairs ==
    /\ [][Decoding /\ PairClosed => ~IsTimestamp(input_ids'[Len(input_ids')])]_vars
    /\ [](Decoding => ~ThreeTimestamps)

\* C13 witness: a run whose post-prefix part holds a text token, then a pair of
\* timestamps, then the text token appended after the pair.
C13_Witness ==
    /\ Decoding
    /\ Len(PostPrefix) = 4
    /\ ~IsTimestamp(PostPrefix[1])
    /\ IsTimestamp(PostPrefix[2])
    /\ IsTimestamp(PostPrefix[3])
    /\ ~IsTimestamp(PostPrefix[4])

====
